---- MODULE Spec2Model ----
(***************************************************************************)
(* A model of the listing fetcher of コード.js: the request executor        *)
(* `request`, the paginated listing functions built on it, and the single  *)
(* request endpoint functions, run by the JavaScript job queue of the host *)
(* (Google Apps Script, V8 runtime): UrlFetchApp.fetch and Utilities.sleep *)
(* block the only thread, every `await` suspends the running function and  *)
(* queues its continuation as a job.                                       *)
(*                                                                         *)
(* Strings are sequences of chunks (a chunk is a run of characters that    *)
(* the model never looks into); URI delimiters ? & = and the characters of *)
(* a search query are chunks of their own.  A JSON text is a sequence of   *)
(* lexemes.  JavaScript values are tagged records.                         *)
(*                                                                         *)
(* The file holds two copies of most functions; a later declaration of a   *)
(* name replaces the earlier one, so the functions modelled are request    *)
(* (line 8) and the endpoint functions of lines 298-598.                   *)
(***************************************************************************)
EXTENDS Integers, Sequences, FiniteSets, TLC

(***************************************************************************)
(* Bounds of the model.                                                    *)
(***************************************************************************)
\* requests one listing call may issue before the model stops following it
MaxReqs == 3
\* items the upstream puts in one page
MaxPageItems == 2
\* characters of a searchChains query
MaxQueryLen == 2

(***************************************************************************)
(* JavaScript values.                                                      *)
(***************************************************************************)
Undefined == [type |-> "undefined", v |-> <<>>]
Str(s) == [type |-> "string", v |-> s]
Arr(s) == [type |-> "array", v |-> s]
\* an object is the sequence of its properties, in insertion order
Obj(props) == [type |-> "object", v |-> props]
Prop(k, val) == [k |-> k, val |-> val]

EmptyString == Str(<<>>)

\* ToBoolean, as `if (payload)`, `if (pageToken)`, `while (pageToken)` apply it
Truthy(x) ==
    CASE x.type = "undefined" -> FALSE
      [] x.type = "string" -> x.v # <<>>
      [] OTHER -> TRUE

\* obj.key: the value of the last property named key among the first n,
\* undefined when none is
RECURSIVE GetProps(_, _, _)
GetProps(props, key, n) ==
    IF n = 0 THEN Undefined
    ELSE IF props[n].k = key THEN props[n].val
    ELSE GetProps(props, key, n - 1)

Get(obj, key) == IF obj.type = "object" THEN GetProps(obj.v, key, Len(obj.v)) ELSE Undefined

\* were the page assigned instead of appended: result = response.accounts
ConcatOverwrites(result, x) == IF x.type = "array" THEN x.v ELSE <<x>>
\* Array.prototype.concat with one argument: an array argument is spread,
\* any other value (undefined included) is appended as one element
Concat(result, x) == IF x.type = "array" THEN result \o x.v ELSE Append(result, x)

\* `${x}` for the values the code interpolates: a string yields its characters
Template(x) ==
    CASE x.type = "string" -> x.v
      [] x.type = "undefined" -> <<"undefined">>
      [] OTHER -> <<"[object Object]">>

(***************************************************************************)
(* JSON texts: JSON.stringify and JSON.parse on sequences of lexemes.      *)
(***************************************************************************)
Quote == "\""

RECURSIVE Stringify(_)
RECURSIVE StringifyElems(_)
RECURSIVE StringifyProps(_)
StringifyElems(s) ==
    IF s = <<>> THEN <<>>
    ELSE \* undefined in an array is serialized as null
         (IF s[1].type = "undefined" THEN <<"null">> ELSE Stringify(s[1]))
         \o (IF Len(s) > 1 THEN <<",">> ELSE <<>>)
         \o StringifyElems(Tail(s))
StringifyProps(s) ==
    IF s = <<>> THEN <<>>
    ELSE <<Quote, s[1].k, Quote, ":">> \o Stringify(s[1].val)
         \o (IF Len(s) > 1 THEN <<",">> ELSE <<>>)
         \o StringifyProps(Tail(s))
Stringify(x) ==
    CASE x.type = "string" -> <<Quote>> \o x.v \o <<Quote>>
      [] x.type = "array" -> <<"[">> \o StringifyElems(x.v) \o <<"]">>
      [] x.type = "object" -> <<"{">> \o StringifyProps(x.v) \o <<"}">>
      [] OTHER -> <<>>

\* A parse result: ok, the value read, and the position after it.
ParseFail == [ok |-> FALSE, val |-> Undefined, next |-> 0]
ParseOk(val, next) == [ok |-> TRUE, val |-> val, next |-> next]
At(text, i) == IF i \in 1..Len(text) THEN text[i] ELSE "<eof>"

\* the position of the quote closing the string whose content starts at i
RECURSIVE ClosingQuote(_, _)
ClosingQuote(text, i) ==
    IF i > Len(text) THEN 0
    ELSE IF text[i] = Quote THEN i ELSE ClosingQuote(text, i + 1)

ParseString(text, i) ==
    IF At(text, i) # Quote THEN ParseFail
    ELSE LET j == ClosingQuote(text, i + 1)
         IN IF j = 0 THEN ParseFail
            ELSE ParseOk(Str(SubSeq(text, i + 1, j - 1)), j + 1)

\* Body applied to the value of e, which is computed once
With(e, Body(_)) == CHOOSE r \in { Body(x) : x \in {e} } : TRUE

RECURSIVE ParseValue(_, _)
RECURSIVE ParseElems(_, _, _)
RECURSIVE ParseMembers(_, _, _)
\* the elements of an array from position i on, `acc` read so far
ParseElems(text, i, acc) ==
    With(ParseValue(text, i), LAMBDA e :
        IF ~e.ok THEN ParseFail
        ELSE IF At(text, e.next) = "," THEN ParseElems(text, e.next + 1, Append(acc, e.val))
        ELSE IF At(text, e.next) = "]" THEN ParseOk(Arr(Append(acc, e.val)), e.next + 1)
        ELSE ParseFail)
\* the members of an object from position i on, `acc` read so far
ParseMembers(text, i, acc) ==
    With(ParseString(text, i), LAMBDA k :
        IF ~k.ok \/ Len(k.val.v) # 1 \/ At(text, k.next) # ":" THEN ParseFail
        ELSE With(ParseValue(text, k.next + 1), LAMBDA e :
            IF ~e.ok THEN ParseFail
            ELSE IF At(text, e.next) = ","
                 THEN ParseMembers(text, e.next + 1, Append(acc, Prop(k.val.v[1], e.val)))
            ELSE IF At(text, e.next) = "}"
                 THEN ParseOk(Obj(Append(acc, Prop(k.val.v[1], e.val))), e.next + 1)
            ELSE ParseFail))
ParseValue(text, i) ==
    CASE At(text, i) = Quote -> ParseString(text, i)
      [] At(text, i) = "[" ->
            IF At(text, i + 1) = "]" THEN ParseOk(Arr(<<>>), i + 2)
            ELSE ParseElems(text, i + 1, <<>>)
      [] At(text, i) = "{" ->
            IF At(text, i + 1) = "}" THEN ParseOk(Obj(<<>>), i + 2)
            ELSE ParseMembers(text, i + 1, <<>>)
      [] OTHER -> ParseFail

\* JSON.parse: the value of the whole text; ok is FALSE where it throws
JSONparse(text) ==
    With(ParseValue(text, 1), LAMBDA r :
        IF r.ok /\ r.next = Len(text) + 1 THEN r ELSE ParseFail)

(***************************************************************************)
(* URIs.  A URI is a sequence of chunks in which "?", "&" and "=" stand    *)
(* alone, so that the query string the upstream reads can be computed.     *)
(***************************************************************************)
ReadMask == "name,title,phoneNumbers,categories,storefrontAddress,websiteUri,regularHours,specialHours,serviceArea,latlng,openInfo,metadata,profile,relationshipData,moreHours,serviceItems"

PaginatedFns == {"getAccounts", "getLocations", "searchAllCategories",
                 "searchAllAttributes", "getPlaceActionLink", "getLocalPosts",
                 "getReviews"}
SingleFns == {"searchLocations", "getInsights", "getAttributes",
              "getGoogleUpdated", "searchChains"}
EndpointFns == PaginatedFns \cup SingleFns
AllFns == EndpointFns \cup {"request"}

\* the URI a function starts from: baseUri of a listing function, endpoint of
\* a single request function, the endPoint argument of request itself
BaseUri(fn, args) ==
    CASE fn = "getAccounts" ->
            <<"https://mybusinessaccountmanagement.googleapis.com/v1/accounts",
              "?", "pageSize", "=", "20">>
      [] fn = "getLocations" ->
            <<"https://mybusinessbusinessinformation.googleapis.com/v1/">>
            \o Template(args.accountName)
            \o <<"/locations", "?", "pageSize", "=", "100", "&", "readMask", "=", ReadMask>>
      [] fn = "searchAllCategories" ->
            <<"https://mybusinessbusinessinformation.googleapis.com/v1/categories",
              "?", "regionCode", "=", "JP", "&", "languageCode", "=", "ja",
              "&", "view", "=", "FULL">>
      [] fn = "searchAllAttributes" ->
            <<"https://mybusinessbusinessinformation.googleapis.com/v1/attributes",
              "?", "regionCode", "=", "JP", "&", "languageCode", "=", "ja",
              "&", "showAll", "=", "true">>
      [] fn = "getPlaceActionLink" ->
            <<"https://mybusinessplaceactions.googleapis.com/v1/">>
            \o Template(args.locationName) \o <<"/placeActionLinks">>
      [] fn = "getLocalPosts" ->
            <<"https://mybusiness.googleapis.com/v4/">> \o Template(args.accountName)
            \o <<"/">> \o Template(args.locationName)
            \o <<"/localPosts", "?", "pageSize", "=", "100">>
      [] fn = "getReviews" ->
            <<"https://mybusiness.googleapis.com/v4/">> \o Template(args.accountName)
            \o <<"/">> \o Template(args.locationName)
            \o <<"/reviews", "?", "pageSize", "=", "50">>
      [] fn = "searchLocations" ->
            <<"https://mybusinessbusinessinformation.googleapis.com/v1/googleLocations:search">>
      [] fn = "getInsights" ->
            <<"https://mybusiness.googleapis.com/v4/">> \o Template(args.accountName)
            \o <<"/locations:reportInsights">>
      [] fn = "getAttributes" ->
            <<"https://mybusinessbusinessinformation.googleapis.com/v1/">>
            \o Template(args.locationName) \o <<"/attributes">>
      [] fn = "getGoogleUpdated" ->
            <<"https://mybusinessbusinessinformation.googleapis.com/v1/">>
            \o Template(args.locationName)
            \o <<":getGoogleUpdated", "?", "readMask", "=", ReadMask>>
      [] fn = "searchChains" ->
            <<"https://mybusinessbusinessinformation.googleapis.com/v1/chains:search",
              "?", "chainName", "=">> \o Template(args.query)
            \o <<"&", "pageSize", "=", "500">>
      [] OTHER -> Template(args.endPoint)

\* the delimiter each listing function writes before pageToken=
PageTokenSep(fn) ==
    IF fn \in {"searchAllCategories", "searchAllAttributes", "getPlaceActionLink"}
    THEN "?" ELSE "&"

\* the name of the response field that holds a page's items
ItemsField(fn) ==
    CASE fn = "getAccounts" -> "accounts"
      [] fn = "getLocations" -> "locations"
      [] fn = "searchAllCategories" -> "categories"
      [] fn = "searchAllAttributes" -> "attributeMetadata"
      [] fn = "getPlaceActionLink" -> "placeActionLinks"
      [] fn = "getLocalPosts" -> "localPosts"
      [] fn = "getReviews" -> "reviews"
      [] OTHER -> "items"

\* the endpoint of one loop iteration of a listing function
PageEndpoint(fn, args, pageToken) ==
    BaseUri(fn, args)
    \o (IF Truthy(pageToken)
        THEN <<PageTokenSep(fn), "pageToken", "=">> \o Template(pageToken) ELSE <<>>)
    \o (IF fn = "getAccounts" /\ Truthy(args.parentAccount)
        THEN <<"&", "parentAccount", "=">> \o Template(args.parentAccount) ELSE <<>>)

\* the method and the payload an endpoint function hands to request
MethodOf(fn, args) ==
    CASE fn \in {"searchLocations", "getInsights"} -> Str(<<"POST">>)
      [] fn = "request" -> args.method
      [] OTHER -> Str(<<"GET">>)

RECURSIVE PrefixNames(_, _)
PrefixNames(accountName, locationNames) ==
    IF locationNames = <<>> THEN <<>>
    ELSE <<Str(Template(accountName) \o <<"/">> \o Template(locationNames[1]))>>
         \o PrefixNames(accountName, Tail(locationNames))

PayloadOf(fn, args) ==
    CASE fn = "searchLocations" ->
            Obj(<<Prop("pageSize", Str(<<"10">>)), Prop("query", args.query)>>)
      [] fn = "getInsights" ->
            Obj(<<Prop("locationNames", Arr(PrefixNames(args.accountName, args.locationNames))),
                  Prop("basicRequest", Obj(<<
                    Prop("metricRequests", Arr(<<Obj(<<
                        Prop("metric", Str(<<"ALL">>)),
                        Prop("options", Arr(<<Str(<<"AGGREGATED_TOTAL">>),
                                              Str(<<"AGGREGATED_DAILY">>)>>))>>)>>)),
                    Prop("timeRange", Obj(<<Prop("startTime", args.startTime),
                                            Prop("endTime", args.endTime)>>))>>))>>)
      [] fn = "request" -> args.payload
      \* the endpoint functions that send GET pass no payload argument
      [] OTHER -> Undefined

\* a parameter default: `method='GET'`, `payload=''`
Default(x, d) == IF x.type = "undefined" THEN d ELSE x

\* were the payload attached only to requests other than GET
BuildParamNoBodyOnGet(methodArg, payloadArg) ==
    LET method == Default(methodArg, Str(<<"GET">>))
        payload == Default(payloadArg, EmptyString)
        attach == Truthy(payload) /\ method # Str(<<"GET">>)
    IN [method |-> method,
        headers |-> <<Prop("Authorization", Str(<<"Bearer ", "<oauth token>">>)),
                      Prop("Content-Type", Str(<<"application/json">>))>>,
        muteHttpExceptions |-> TRUE,
        hasPayload |-> attach,
        payload |-> IF attach THEN Stringify(payload) ELSE <<>>]
\* request, lines 9-20: the options object handed to UrlFetchApp.fetch
BuildParam(methodArg, payloadArg) ==
    LET method == Default(methodArg, Str(<<"GET">>))
        payload == Default(payloadArg, EmptyString)
    IN [method |-> method,
        headers |-> <<Prop("Authorization", Str(<<"Bearer ", "<oauth token>">>)),
                      Prop("Content-Type", Str(<<"application/json">>))>>,
        muteHttpExceptions |-> TRUE,
        hasPayload |-> Truthy(payload),
        payload |-> IF Truthy(payload) THEN Stringify(payload) ELSE <<>>]

\* were every 2xx status taken for a success
IsSuccessAny2xx(code) == code \in 200..299
\* request, line 23: the status test
IsSuccess(code) == code = 200

\* request, line 26: the error thrown for a response that is not a success
RequestError(response) ==
    [code |-> response.code, content |-> response.content,
     message |-> "This Request was not successful"]
\* what JSON.parse throws on a text that is no JSON
SyntaxError == [code |-> 0, content |-> <<>>, message |-> "SyntaxError"]
NoError == [code |-> 0, content |-> <<>>, message |-> ""]
NoValue == [type |-> "none", v |-> <<>>]

(***************************************************************************)
(* The upstream API.  It answers a request with any status and body of the *)
(* sets below: the k-th page of a call carries up to MaxPageItems items    *)
(* named after k and their position (or no items field at all), and either *)
(* no nextPageToken, an empty one, or a fresh one named after k.  A 200    *)
(* body is always a JSON object, as the API documents.                     *)
(***************************************************************************)
ItemNames == <<"i01", "i02", "i03", "i04", "i05", "i06", "i07", "i08", "i09", "i10",
               "i11", "i12", "i13", "i14", "i15", "i16", "i17", "i18", "i19", "i20",
               "i21", "i22", "i23", "i24", "i25", "i26", "i27", "i28", "i29", "i30">>
TokenNames == <<"t1", "t2", "t3", "t4", "t5", "t6", "t7", "t8">>

Item(k, j) == Obj(<<Prop("name", Str(<<ItemNames[(k - 1) * (MaxPageItems + 1) + j]>>))>>)
PageItems(k, n) == [j \in 1..n |-> Item(k, j)]
FreshToken(k) == Str(<<TokenNames[k]>>)

\* a page: `items` is an array or Undefined (no items field), `token` a string
\* or Undefined (no nextPageToken field)
Page(field, items, token) ==
    Obj((IF items.type = "array" THEN <<Prop(field, items)>> ELSE <<>>)
        \o (IF token.type = "string" THEN <<Prop("nextPageToken", token)>> ELSE <<>>))

Response(code, content) == [code |-> code, content |-> content]
NoResponse == Response(0, <<>>)

OkResponses(field, k) ==
    { Response(200, Stringify(Page(field, items, token))) :
        items \in {Undefined} \cup { Arr(PageItems(k, n)) : n \in 0..MaxPageItems },
        token \in {Undefined, EmptyString, FreshToken(k)} }
ErrorResponses ==
    { Response(201, Stringify(Obj(<<>>))),
      Response(403, Stringify(Obj(<<Prop("error", Str(<<"denied">>))>>))),
      Response(500, <<"Internal Server Error">>) }
Responses(field, k) == OkResponses(field, k) \cup ErrorResponses

\* the answers of the upstream where two operations run side by side
FewResponses(field, k) ==
    { Response(200, Stringify(Page(field, Arr(PageItems(k, 1)), token))) :
        token \in {Undefined, EmptyString, FreshToken(k)} }
    \cup { Response(403, Stringify(Obj(<<Prop("error", Str(<<"denied">>))>>))) }

(***************************************************************************)
(* The callers' arguments.                                                 *)
(***************************************************************************)
AccountName == Str(<<"accounts/1">>)
LocationName == Str(<<"locations/2">>)
QueryChars == {"F", " ", "&"}
Queries == UNION { [1..n -> QueryChars] : n \in 0..MaxQueryLen }

NoArgs ==
    [parentAccount |-> Undefined, accountName |-> AccountName,
     locationName |-> LocationName, locationNames |-> <<>>,
     query |-> EmptyString, startTime |-> Str(<<"2021-01-01T00:00:00Z">>),
     endTime |-> Str(<<"2021-02-01T00:00:00Z">>),
     endPoint |-> Undefined, method |-> Undefined, payload |-> Undefined]

ArgsOf(fn) ==
    CASE fn = "getAccounts" ->
            { [NoArgs EXCEPT !.parentAccount = p] : p \in {Undefined, Str(<<"accounts/9">>)} }
      [] fn = "searchChains" ->
            { [NoArgs EXCEPT !.query = Str(q)] : q \in Queries }
      [] fn = "searchLocations" ->
            { [NoArgs EXCEPT !.query = Str(<<"F">>)] }
      [] fn = "getInsights" ->
            { [NoArgs EXCEPT !.locationNames = l] :
                l \in {<<>>, <<LocationName>>, <<LocationName, Str(<<"locations/3">>)>>} }
      [] fn = "request" ->
            { [NoArgs EXCEPT !.endPoint = Str(<<"https://mybusiness.googleapis.com/v4/x">>),
                             !.method = m, !.payload = p] :
                m \in {Undefined, Str(<<"GET">>), Str(<<"POST">>)},
                p \in {Undefined, EmptyString, Obj(<<>>),
                       Obj(<<Prop("query", Str(<<"F">>))>>)} }
      [] OTHER -> {NoArgs}

(***************************************************************************)
(* State.                                                                  *)
(*   tasks    the operations the caller started, one record per slot       *)
(*   jobs     the job queue: the slots whose continuation waits to run     *)
(*   inflight the slots whose network call is out and not yet answered     *)
(*   last     the most recent network call: whose it is, whether request   *)
(*            has dealt with its response, whether the sleep that follows  *)
(*            it is over                                                   *)
(***************************************************************************)
VARIABLES tasks, jobs, inflight, last
vars == <<tasks, jobs, inflight, last>>

Tasks == {1, 2}
Done == {"returned", "raised"}

\* the locals of an operation before it runs
IdleTask ==
    [fn |-> "none", args |-> NoArgs, aw |-> FALSE, pc |-> "idle",
     result |-> <<>>, pageToken |-> Undefined,
     response |-> NoResponse, value |-> NoValue, error |-> NoError, retval |-> NoValue,
     sent |-> <<>>, got |-> <<>>, calls |-> 0, sleeps |-> 0]

NoLast == [task |-> 0, processed |-> TRUE, ok |-> TRUE, slept |-> TRUE]

Init ==
    /\ tasks = [t \in Tasks |-> IdleTask]
    /\ jobs = <<>>
    /\ inflight = {}
    /\ last = NoLast

\* UrlFetchApp.fetch and Utilities.sleep are synchronous: while a network call
\* is out, the one thread is inside fetch and no JavaScript runs
ThreadFree == inflight = {}

\* the job at the head of the queue belongs to slot t, which is at `pc`
Runs(t, pc) ==
    /\ ThreadFree
    /\ jobs # <<>> /\ Head(jobs) = t
    /\ tasks[t].pc = pc

\* request up to `await UrlFetchApp.fetch(endPoint, param)`: the call goes out
Fetching(task, t, endpoint) ==
    LET param == BuildParam(MethodOf(task.fn, task.args), PayloadOf(task.fn, task.args))
    IN [task EXCEPT !.pc = "fetch", !.calls = @ + 1,
                    !.sent = Append(@, [endpoint |-> endpoint, param |-> param])]

\* The caller calls an endpoint function (or request itself); the function
\* runs up to its first await, which is inside request.  `aw` tells whether
\* the caller awaits the promise it gets before it does anything else.
StartCall(t, fn, args, aw) ==
    /\ ThreadFree
    /\ tasks[t].pc \in {"idle"} \cup Done
    /\ \A u \in Tasks : tasks[u].aw => tasks[u].pc \in {"idle"} \cup Done
    /\ LET fresh == [IdleTask EXCEPT !.fn = fn, !.args = args, !.aw = aw]
       IN tasks' = [tasks EXCEPT ![t] = Fetching(fresh, t, PageEndpoint(fn, args, Undefined))]
    /\ inflight' = inflight \cup {t}
    /\ last' = [task |-> t, processed |-> FALSE, ok |-> FALSE, slept |-> FALSE]
    /\ UNCHANGED jobs

\* The transport returns the upstream's answer; `await` on it suspends request
\* and queues its continuation.
FetchReturn(t, response) ==
    /\ t \in inflight
    /\ tasks[t].pc = "fetch"
    /\ tasks' = [tasks EXCEPT ![t].pc = "awaitFetch", ![t].response = response,
                              ![t].got = Append(@, response)]
    /\ inflight' = inflight \ {t}
    /\ jobs' = Append(jobs, t)
    /\ UNCHANGED last

\* request, lines 23-27: the status test; request's promise is settled and the
\* reaction of `.then` is queued (or, when the caller called request itself,
\* the call is over).
RequestCont(t) ==
    /\ Runs(t, "awaitFetch")
    /\ LET task == tasks[t]
           direct == task.fn = "request"
           parsed == JSONparse(task.response.content)
       IN /\ IF IsSuccess(task.response.code)
             THEN IF parsed.ok
                  THEN tasks' = [tasks EXCEPT
                          ![t].value = parsed.val,
                          ![t].retval = IF direct THEN parsed.val ELSE @,
                          ![t].pc = IF direct THEN "returned" ELSE "thenCb"]
                  ELSE tasks' = [tasks EXCEPT
                          ![t].error = SyntaxError,
                          ![t].pc = IF direct THEN "raised" ELSE "thenRejected"]
             ELSE tasks' = [tasks EXCEPT
                          ![t].error = RequestError(task.response),
                          ![t].pc = IF direct THEN "raised" ELSE "thenRejected"]
          /\ jobs' = IF direct THEN Tail(jobs) ELSE Append(Tail(jobs), t)
          /\ last' = IF last.task = t
                     THEN [last EXCEPT !.processed = TRUE,
                                       !.ok = IsSuccess(task.response.code) /\ parsed.ok]
                     ELSE last
    /\ UNCHANGED inflight

\* the callback given to `.then`: a listing function appends the page's items
\* and keeps the page's token, a single request function keeps the response
ThenCb(t) ==
    /\ Runs(t, "thenCb")
    /\ LET task == tasks[t]
       IN tasks' = [tasks EXCEPT
            ![t].result = IF task.fn \in PaginatedFns
                          THEN Concat(@, Get(task.value, ItemsField(task.fn)))
                          ELSE @,
            ![t].pageToken = IF task.fn \in PaginatedFns
                             THEN Get(task.value, "nextPageToken") ELSE @,
            ![t].pc = "afterThen"]
    /\ jobs' = Append(Tail(jobs), t)
    /\ UNCHANGED <<inflight, last>>

\* were the rejection caught and dropped, as by a `.catch(() => {})`
ThenRejectedSwallowed(t) ==
    /\ Runs(t, "thenRejected")
    /\ tasks' = [tasks EXCEPT ![t].pc = "afterThen"]
    /\ jobs' = Append(Tail(jobs), t)
    /\ UNCHANGED <<inflight, last>>
\* `.then` was given no rejection handler: its promise is rejected in turn
ThenRejected(t) ==
    /\ Runs(t, "thenRejected")
    /\ tasks' = [tasks EXCEPT ![t].pc = "awaitRejected"]
    /\ jobs' = Append(Tail(jobs), t)
    /\ UNCHANGED <<inflight, last>>

\* were the sleep in a `finally`, taken on the way out of a failed iteration
AwaitRejectedSleeps(t) ==
    /\ Runs(t, "awaitRejected")
    /\ tasks' = [tasks EXCEPT ![t].pc = "raised", ![t].sleeps = @ + 1]
    /\ jobs' = Tail(jobs)
    /\ UNCHANGED <<inflight, last>>
\* `await request(...).then(...)` throws in the endpoint function, which has
\* no try: the call is over, its promise rejected with the error
AwaitRejected(t) ==
    /\ Runs(t, "awaitRejected")
    /\ tasks' = [tasks EXCEPT ![t].pc = "raised"]
    /\ jobs' = Tail(jobs)
    /\ UNCHANGED <<inflight, last>>

\* were the sleep left out
SleepSkipped(t) ==
    /\ Runs(t, "afterThen")
    /\ tasks' = [tasks EXCEPT ![t].pc = "afterSleep"]
    /\ jobs' = Append(Tail(jobs), t)
    /\ UNCHANGED <<inflight, last>>
\* `await Utilities.sleep(1000)`: the thread sleeps, then the function is
\* suspended once more
Sleep(t) ==
    /\ Runs(t, "afterThen")
    /\ tasks' = [tasks EXCEPT ![t].sleeps = @ + 1, ![t].pc = "afterSleep"]
    /\ jobs' = Append(Tail(jobs), t)
    /\ last' = IF last.task = t THEN [last EXCEPT !.slept = TRUE] ELSE last
    /\ UNCHANGED inflight

\* were the loop left after its first iteration
LoopsOnlyOnce(task) == FALSE
\* `while (pageToken)` of a listing function
Loops(task) == task.fn \in PaginatedFns /\ Truthy(task.pageToken)

\* the loop goes round: the next endpoint is built and request called
NextPage(t) ==
    /\ Runs(t, "afterSleep")
    /\ Loops(tasks[t])
    /\ Len(tasks[t].sent) < MaxReqs
    /\ LET task == tasks[t]
       IN tasks' = [tasks EXCEPT
            ![t] = Fetching(task, t, PageEndpoint(task.fn, task.args, task.pageToken))]
    /\ jobs' = Tail(jobs)
    /\ inflight' = inflight \cup {t}
    /\ last' = [task |-> t, processed |-> FALSE, ok |-> FALSE, slept |-> FALSE]

\* `return result`
Return(t) ==
    /\ Runs(t, "afterSleep")
    /\ ~Loops(tasks[t])
    /\ LET task == tasks[t]
       IN tasks' = [tasks EXCEPT
            ![t].retval = IF task.fn \in PaginatedFns THEN Arr(task.result) ELSE task.value,
            ![t].pc = "returned"]
    /\ jobs' = Tail(jobs)
    /\ UNCHANGED <<inflight, last>>

\* what the upstream may answer to the call of slot t that is out
Answers(t) ==
    IF tasks[t].pc = "fetch"
    THEN Responses(ItemsField(tasks[t].fn), Len(tasks[t].sent)) ELSE {}

\* the job at the head of the queue runs
JobStep(t) ==
    \/ RequestCont(t)
    \/ ThenCb(t)
    \/ ThenRejected(t)
    \/ AwaitRejected(t)
    \/ Sleep(t)
    \/ NextPage(t)
    \/ Return(t)

\* one step of the host: the transport answers, or the next job runs
Engine(t) ==
    \/ \E r \in Answers(t) : FetchReturn(t, r)
    \/ JobStep(t)

\* the same where two operations run side by side
FewAnswers(t) ==
    IF tasks[t].pc = "fetch"
    THEN FewResponses(ItemsField(tasks[t].fn), Len(tasks[t].sent)) ELSE {}
ConcEngine(t) ==
    \/ \E r \in FewAnswers(t) : FetchReturn(t, r)
    \/ JobStep(t)

\* A caller that awaits every call: one operation at a time.
Next ==
    \/ \E fn \in AllFns : \E args \in ArgsOf(fn) : StartCall(1, fn, args, TRUE)
    \/ Engine(1)

Spec == Init /\ [][Next]_vars

\* Listing calls alone, one at a time, against the upstream of few answers.
\* The host runs every queued job and the transport answers every call, so
\* a step of the host that stays possible is taken.
LoopNext ==
    \/ \E fn \in PaginatedFns : \E args \in ArgsOf(fn) : StartCall(1, fn, args, TRUE)
    \/ ConcEngine(1)

FairSpec == Init /\ [][LoopNext]_vars /\ WF_vars(ConcEngine(1))

\* A caller that starts listing operations in either of two slots, awaiting
\* them or not: an operation it does not await runs on while it starts the next.
ConcFns == {"getAccounts", "getReviews"}
ConcNext ==
    \/ \E t \in Tasks, fn \in ConcFns, aw \in BOOLEAN : StartCall(t, fn, NoArgs, aw)
    \/ \E t \in Tasks : ConcEngine(t)

ConcSpec == Init /\ [][ConcNext]_vars

(***************************************************************************)
(* What the claims speak of, read off the record of a call: the requests   *)
(* it sent and the answers it got.                                         *)
(***************************************************************************)
Paginated(task) == task.fn \in PaginatedFns

\* the parsed body of the i-th answer of a call
PageOf(task, i) == JSONparse(task.got[i].content).val
\* the items field of the i-th answer, Undefined when the body has none
ItemsOf(task, i) == Get(PageOf(task, i), ItemsField(task.fn))
\* the nextPageToken of the i-th answer
TokenOf(task, i) == Get(PageOf(task, i), "nextPageToken")

AllOk(task) == \A i \in 1..Len(task.got) : task.got[i].code = 200
EveryPageHasItems(task) ==
    \A i \in 1..Len(task.got) : ItemsOf(task, i).type = "array"

\* the item arrays of the first n pages, one after the other; a page without
\* the field adds nothing
RECURSIVE PagesConcat(_, _)
PagesConcat(task, n) ==
    IF n = 0 THEN <<>>
    ELSE PagesConcat(task, n - 1)
         \o (IF ItemsOf(task, n).type = "array" THEN ItemsOf(task, n).v ELSE <<>>)

RECURSIVE PagesTotal(_, _)
PagesTotal(task, n) ==
    IF n = 0 THEN 0
    ELSE PagesTotal(task, n - 1)
         + (IF ItemsOf(task, n).type = "array" THEN Len(ItemsOf(task, n).v) ELSE 0)

\* every page holds the same number k of items
UniformPages(task, k) ==
    \A i \in 1..Len(task.got) : ItemsOf(task, i) = Arr(ItemsOf(task, i).v)
                                /\ Len(ItemsOf(task, i).v) = k

\* C1: a listing call that got only 200 pages, each with its items field an
\* array, returns the concatenation of the pages' arrays in page order, every
\* item once: N pages of k items give N*k items.
C1_ReturnsConcatenation ==
    \A t \in Tasks :
        LET task == tasks[t]
            n == Len(task.got)
        IN (Paginated(task) /\ task.pc = "returned" /\ EveryPageHasItems(task)) =>
              /\ task.retval = Arr(PagesConcat(task, n))
              /\ Len(task.retval.v) = PagesTotal(task, n)
              /\ \A k \in 0..MaxPageItems :
                    UniformPages(task, k) => Len(task.retval.v) = n * k
              /\ \A i, j \in 1..Len(task.retval.v) :
                    i # j => task.retval.v[i] # task.retval.v[j]

C1_Witness ==
    \E t \in Tasks :
        LET task == tasks[t]
        IN /\ Paginated(task) /\ task.pc = "returned" /\ EveryPageHasItems(task)
           /\ Len(task.got) = 3 /\ UniformPages(task, 2)
           /\ Len(task.retval.v) = 6

\* C2: once a page of a listing call is answered with a status other than
\* 200, that answer is the call's last: no further request goes out, the call
\* is on its way to raising (or has raised, with the error of that answer), and
\* nothing is returned, whatever was accumulated.
C2_FailureAborts ==
    \A t \in Tasks :
        LET task == tasks[t]
            n == Len(task.got)
        IN (Paginated(task) /\ ~AllOk(task)) =>
              /\ task.got[n].code # 200
              /\ \A i \in 1..(n - 1) : task.got[i].code = 200
              /\ Len(task.sent) = n
              /\ task.pc \in {"awaitFetch", "thenRejected", "awaitRejected", "raised"}
              /\ task.retval = NoValue
              /\ task.pc = "raised" => task.error = RequestError(task.got[n])

C2_Witness ==
    \E t \in Tasks :
        LET task == tasks[t]
        IN /\ Paginated(task) /\ task.pc = "raised"
           /\ Len(task.got) = 3 /\ task.got[3].code = 403
           /\ Len(task.result) = 4

\* C3: a 200 page without the items field adds nothing to what a listing call
\* returns: the length of the returned array is the sum of the lengths of the
\* item arrays of the pages that have the field.
C3_AbsentFieldAddsNothing ==
    \A t \in Tasks :
        LET task == tasks[t]
        IN (Paginated(task) /\ task.pc = "returned") =>
              /\ task.retval.type = "array"
              /\ Len(task.retval.v) = PagesTotal(task, Len(task.got))

\* C4: every invocation of request makes exactly one network call; a call of
\* request returns the parsed body exactly when the status is 200, and for any
\* other status raises the error that carries the status and the raw body.
C4_OneCallStatusDecides ==
    \A t \in Tasks :
        LET task == tasks[t]
            n == Len(task.got)
        IN /\ Len(task.sent) = task.calls
           /\ Len(task.sent) - n = (IF t \in inflight THEN 1 ELSE 0)
           /\ task.fn = "request" => Len(task.sent) <= 1
           /\ (task.fn = "request" /\ task.pc \in Done) =>
                 /\ Len(task.sent) = 1 /\ n = 1
                 /\ task.got[1].code = 200 =>
                       /\ task.pc = "returned"
                       /\ task.retval = JSONparse(task.got[1].content).val
                       /\ task.error = NoError
                 /\ task.got[1].code # 200 =>
                       /\ task.pc = "raised"
                       /\ task.retval = NoValue
                       /\ task.error.code = task.got[1].code
                       /\ task.error.content = task.got[1].content
           \* the same for the invocations an endpoint function makes
           /\ task.pc \in {"thenCb", "afterThen", "afterSleep"} =>
                 /\ task.got[n].code = 200
                 /\ task.value = JSONparse(task.got[n].content).val
           /\ task.pc \in {"thenRejected", "awaitRejected"} =>
                 /\ task.got[n].code # 200
                 /\ task.error.code = task.got[n].code
                 /\ task.error.content = task.got[n].content

\* request raised on 403 with the body {"error":"denied"}, after one call
C4_Witness ==
    \E t \in Tasks :
        LET task == tasks[t]
        IN /\ task.fn = "request" /\ task.pc = "raised"
           /\ Len(task.sent) = 1
           /\ task.error.code = 403
           /\ task.error.content = <<"{", Quote, "error", Quote, ":", Quote, "denied", Quote, "}">>

\* the payload argument of request in a call, after its default
PayloadArg(task) == Default(PayloadOf(task.fn, task.args), EmptyString)
Get_ == Str(<<"GET">>)

\* C5: a listing call ends (returns or raises) once the upstream answers with
\* an empty or absent nextPageToken or with a status other than 200, and only
\* then: it has no iteration cap, so as long as every 200 answer carries a
\* token the call does not end and the next request goes out (followed here up
\* to MaxReqs requests).
LastAnswerEnds(task) ==
    LET n == Len(task.got)
    IN n > 0 /\ (task.got[n].code # 200 \/ ~Truthy(TokenOf(task, n)))
Answered(task) == Paginated(task) /\ task.pc = "awaitFetch"

C5_EndsIffTokenStops ==
    /\ [](\A t \in Tasks :
            (Paginated(tasks[t]) /\ tasks[t].pc \in Done) => LastAnswerEnds(tasks[t]))
    /\ \A t \in Tasks :
          (Answered(tasks[t]) /\ LastAnswerEnds(tasks[t])) ~> (tasks[t].pc \in Done)
    /\ \A t \in Tasks :
          (Answered(tasks[t]) /\ ~LastAnswerEnds(tasks[t]) /\ Len(tasks[t].sent) < MaxReqs)
             ~> (t \in inflight /\ Len(tasks[t].sent) > Len(tasks[t].got))

\* the third request of a call is out: both earlier answers carried a token
C5_Witness ==
    \E t \in Tasks :
        LET task == tasks[t]
        IN /\ Paginated(task) /\ t \in inflight
           /\ Len(task.sent) = 3 /\ Len(task.got) = 2
           /\ Truthy(TokenOf(task, 1)) /\ Truthy(TokenOf(task, 2))

\* C6 as stated: request attaches a body only when a payload is supplied and
\* the method is not GET; a GET request, and a call without payload, carries
\* no body.
C6_NoBodyOnGet ==
    \A t \in Tasks :
        \A i \in 1..Len(tasks[t].sent) :
            LET prm == tasks[t].sent[i].param
            IN prm.hasPayload => (Truthy(PayloadArg(tasks[t])) /\ prm.method # Get_)

\* C6 as amended: request attaches the serialized payload exactly when the
\* payload it is given is truthy, whatever the method; a call without payload
\* carries no body, and the GET requests of the endpoint functions, which pass
\* no payload, carry none.
C6_BodyIffPayload ==
    \A t \in Tasks :
        \A i \in 1..Len(tasks[t].sent) :
            LET prm == tasks[t].sent[i].param
                payload == PayloadArg(tasks[t])
            IN /\ prm.hasPayload <=> Truthy(payload)
               /\ prm.payload = (IF Truthy(payload) THEN Stringify(payload) ELSE <<>>)
               /\ (tasks[t].fn # "request" /\ prm.method = Get_) => ~prm.hasPayload
               /\ prm.method = Default(MethodOf(tasks[t].fn, tasks[t].args), Get_)

\* request was called with GET and a payload, and the call went out with a body
C6_Witness ==
    \E t \in Tasks :
        /\ tasks[t].fn = "request" /\ Len(tasks[t].sent) = 1
        /\ tasks[t].sent[1].param.method = Get_
        /\ Truthy(tasks[t].args.payload)
        /\ tasks[t].sent[1].param.hasPayload
        /\ tasks[t].sent[1].param.payload =
              <<"{", Quote, "query", Quote, ":", Quote, "F", Quote, "}">>

\* encodeURIComponent on the characters a query is made of here
EncodeChar(c) ==
    CASE c = " " -> "%20"
      [] c = "&" -> "%26"
      [] OTHER -> c
EncodeURIComponent(chars) == [i \in 1..Len(chars) |-> EncodeChar(chars[i])]

\* C7: searchChains(q) sends one GET to the chains search endpoint with the
\* query string chainName=<q percent-encoded>&pageSize=500, and returns the
\* parsed response as it is, token or not, without a second request.
C7_QueryPercentEncoded ==
    \A t \in Tasks :
        LET task == tasks[t]
        IN (task.fn = "searchChains" /\ task.pc # "idle") =>
              /\ Len(task.sent) = 1
              /\ task.sent[1].param.method = Get_
              /\ ~task.sent[1].param.hasPayload
              /\ task.sent[1].endpoint =
                    <<"https://mybusinessbusinessinformation.googleapis.com/v1/chains:search",
                      "?", "chainName", "=">>
                    \o EncodeURIComponent(task.args.query.v)
                    \o <<"&", "pageSize", "=", "500">>
              /\ task.pc = "returned" => task.retval = PageOf(task, 1)

\* the query string of a URI as the upstream reads it: what follows the first
\* "?", cut at every "&", each part a name, "=", and a value
RECURSIVE IndexFrom(_, _, _)
IndexFrom(uri, c, i) ==
    IF i > Len(uri) THEN Len(uri) + 1
    ELSE IF uri[i] = c THEN i ELSE IndexFrom(uri, c, i + 1)

RECURSIVE ParamFrom(_, _, _)
\* the value of parameter `name` among the parameters that start at i
ParamFrom(uri, name, i) ==
    IF i > Len(uri) THEN [found |-> FALSE, value |-> <<>>]
    ELSE LET end == IndexFrom(uri, "&", i)
         IN IF uri[i] = name /\ At(uri, i + 1) = "="
            THEN [found |-> TRUE, value |-> SubSeq(uri, i + 2, end - 1)]
            ELSE ParamFrom(uri, name, end + 1)
QueryParam(uri, name) == ParamFrom(uri, name, IndexFrom(uri, "?", 1) + 1)

\* the extra query parameters a listing function writes after the page token
ExtraParams(task) ==
    IF task.fn = "getAccounts" /\ Truthy(task.args.parentAccount)
    THEN <<"&", "parentAccount", "=">> \o task.args.parentAccount.v ELSE <<>>

\* C8: the first request of a listing call carries no page token; every
\* later one goes to the base URI followed by &pageToken=<t> and the extra
\* parameters, t being the nextPageToken of the answer just before, so that
\* the upstream reads t as the query parameter pageToken.
C8_TokenForwarded ==
    \A t \in Tasks :
        LET task == tasks[t]
        IN Paginated(task) =>
              \A i \in 1..Len(task.sent) :
                 LET uri == task.sent[i].endpoint
                 IN IF i = 1
                    THEN /\ uri = BaseUri(task.fn, task.args) \o ExtraParams(task)
                         /\ ~QueryParam(uri, "pageToken").found
                    ELSE /\ uri = BaseUri(task.fn, task.args)
                                  \o <<"&", "pageToken", "=">> \o TokenOf(task, i - 1).v
                                  \o ExtraParams(task)
                         /\ QueryParam(uri, "pageToken") =
                               [found |-> TRUE, value |-> TokenOf(task, i - 1).v]

\* C9 as stated: when a listing call returns or raises, it has slept once for
\* every request it issued, the failed one included.
C9_SleepPerRequest ==
    \A t \in Tasks :
        (Paginated(tasks[t]) /\ tasks[t].pc \in Done) =>
            tasks[t].sleeps = Len(tasks[t].sent)

\* the number of 200 answers among the first n
RECURSIVE OkCount(_, _)
OkCount(task, n) ==
    IF n = 0 THEN 0
    ELSE OkCount(task, n - 1) + (IF task.got[n].code = 200 THEN 1 ELSE 0)

\* C9 as amended: a listing call sleeps once after every request that was
\* answered with 200, the first included, and not after a failed one: when it
\* returns it has slept once per request issued, when it raises once less.
C9_SleepPerSuccess ==
    \A t \in Tasks :
        LET task == tasks[t]
        IN Paginated(task) =>
              /\ task.pc = "returned" => task.sleeps = Len(task.sent)
              /\ task.pc = "raised" => task.sleeps = Len(task.sent) - 1
              /\ task.pc \in Done \cup {"afterSleep", "fetch"} =>
                    task.sleeps = OkCount(task, Len(task.got))

\* a call raised on its third request, after two sleeps
C9_Witness ==
    \E t \in Tasks :
        LET task == tasks[t]
        IN /\ Paginated(task) /\ task.pc = "raised"
           /\ Len(task.sent) = 3 /\ task.sleeps = 2

\* a network call goes out in this step
Issues(t) == t \in inflight' /\ t \notin inflight

\* C10 as stated: whatever the caller awaits, a request goes out only when no
\* other is in flight and the request before it has been dealt with and its
\* sleep is over.
C10_StrictlySequential ==
    [][\A t \in Tasks :
          Issues(t) => (inflight = {} /\ last.processed /\ last.slept)]_vars

\* C10 as amended: at most one request is in flight at any time.  Within one
\* operation, and from one operation to the next when the earlier has returned
\* or raised before the later starts (as when the caller awaits each), a
\* request goes out only after request has dealt with the answer to the one
\* before and, when that answer was a 200, after the sleep that follows it.
C10_SequentialWhenAwaited ==
    /\ [](Cardinality(inflight) <= 1)
    /\ [][\A t \in Tasks :
            (Issues(t) /\ last.task # 0
                /\ (last.task = t \/ tasks[last.task].pc \in Done))
            => (inflight = {} /\ last.processed /\ (last.ok => last.slept))]_vars

\* two operations are under way, the request of one is out while the other,
\* started without await and answered, has not yet looked at its answer
C10_Witness ==
    /\ tasks[1].pc = "awaitFetch" /\ ~tasks[1].aw
    /\ tasks[2].pc = "fetch" /\ inflight = {2}
    /\ Len(tasks[2].sent) = 2

====
